---- MODULE Spec2Model ----
(***************************************************************************)
(* A model of the APK editor core (src/apk_editor.py) and of the Android   *)
(* Studio export (src/app.py: should_skip_file and                         *)
(* create_android_studio_export).                                          *)
(*                                                                         *)
(* Paths and file names are sequences of tokens ("res", "/", ".xml", ...)  *)
(* so that str.endswith, the `in` substring test, str.startswith and       *)
(* os.path.basename are computed rather than assumed.  File contents are   *)
(* small integers (archive payloads) or content classes (markup files).    *)
(*                                                                         *)
(* Three specifications share the module: Spec drives the editor           *)
(* operations (decompile, compile, sign, getInfo), SpecExport drives the   *)
(* export, and SpecEnv drives the editor while the environment the         *)
(* toolchain was probed in changes under it.                               *)
(***************************************************************************)
EXTENDS Integers, Sequences, FiniteSets, TLC

VARIABLES
    apktool_path,   \* APKEditor.apktool_path: a path or None
    java_path,      \* APKEditor.java_path: "java" or None
    env,            \* what the probes of the toolchain would find at this moment
    pkg,            \* the file at packagePath
    dirKind,        \* what the project/output directory path is: absent, dir, file
    tree,           \* regular files under the project directory: relative name -> bytes
    tempKind,       \* what the path "temp" (parent of the usual output path) is
    output_path,    \* the outputPath the caller compiles to
    outFile,        \* the file at output_path
    keystore,       \* whether debug.keystore exists
    ret,            \* the last operation of the editor and what it returned
    roundTrip,      \* set by a successful fallback decompile, cleared when the tree is edited
    projTree,       \* export: regular files of the decompiled project, relative path -> file
    cwdTree,        \* export: files at the same relative paths under the working directory
    bundle,         \* export: the archive written at export_path
    exportRet,      \* export: the last call of create_android_studio_export
    records,        \* web app: the rows of the Project table, id -> row
    stored,         \* web app: the files under uploads/ and temp/, path -> file
    projectDirs,    \* web app: the directories projects/project_<id>, id -> tree
    request         \* web app: the last request served

editorVars == <<apktool_path, java_path, env, pkg, dirKind, tree, tempKind, output_path,
                outFile, keystore, ret, roundTrip>>
exportVars == <<projTree, cwdTree, bundle, exportRet>>
projectVars == <<records, stored, projectDirs, request>>
vars == <<apktool_path, java_path, env, pkg, dirKind, tree, tempKind, output_path,
          outFile, keystore, ret, roundTrip, projTree, cwdTree, bundle, exportRet,
          records, stored, projectDirs, request>>

None == "None"

(***************************************************************************)
(* Bounds of the model.                                                    *)
(***************************************************************************)
MaxEntries == 2     \* entries in a package archive
MaxFiles == 2       \* files in an exported project tree
MaxCwdFiles == 1    \* files under the working directory that share a relative path

(***************************************************************************)
(* Token strings.                                                          *)
(***************************************************************************)
EndsWith(s, suf) ==
    /\ Len(s) >= Len(suf)
    /\ SubSeq(s, Len(s) - Len(suf) + 1, Len(s)) = suf

StartsWith(s, pre) ==
    /\ Len(s) >= Len(pre)
    /\ SubSeq(s, 1, Len(pre)) = pre

Contains(s, sub) ==
    \E i \in 1..(Len(s) - Len(sub) + 1) : SubSeq(s, i, i + Len(sub) - 1) = sub

RECURSIVE Split(_)
Split(s) ==
    IF \A i \in 1..Len(s) : s[i] # "/"
    THEN <<s>>
    ELSE LET i == CHOOSE k \in 1..Len(s) :
                      s[k] = "/" /\ \A j \in 1..(k - 1) : s[j] # "/"
         IN  <<SubSeq(s, 1, i - 1)>> \o Split(SubSeq(s, i + 1, Len(s)))

RECURSIVE Join(_)
Join(cs) ==
    IF cs = <<>> THEN <<>>
    ELSE IF Len(cs) = 1 THEN cs[1]
    ELSE cs[1] \o <<"/">> \o Join(Tail(cs))

Basename(s) == LET cs == Split(s) IN cs[Len(cs)]

RECURSIVE SetToSeq(_)
SetToSeq(S) ==
    IF S = {} THEN <<>>
    ELSE LET x == CHOOSE y \in S : TRUE IN <<x>> \o SetToSeq(S \ {x})

Range(s) == {s[i] : i \in 1..Len(s)}

(***************************************************************************)
(* Names used in archives and trees.                                       *)
(***************************************************************************)
ManifestName == <<"AndroidManifest", ".xml">>
DexName == <<"classes", ".dex">>
NestedDexName == <<"lib", "/", "classes", ".dex">>
EscapingName == <<"..", "/", "lib", ".so">>
LeftoverName == <<"old", ".txt">>
OutApkName == <<"out", ".apk">>

EntryNames == {ManifestName, NestedDexName, EscapingName}
\* File payloads are integers: the i-th entry of a package carries payload i,
\* 0 stands for the bytes of an archive under construction, and an edit
\* replaces a payload by one that no package entry carries.
ArchiveBytes == 0
WithPayloads(names) == [i \in 1..Len(names) |-> [name |-> names[i], data |-> i]]
EditedBytes == MaxEntries + 1

RECURSIVE SeqsUpTo(_, _)
SeqsUpTo(S, n) ==
    IF n = 0 THEN {<<>>}
    ELSE LET shorter == SeqsUpTo(S, n - 1)
         IN  shorter \cup {Append(q, e) : q \in {r \in shorter : Len(r) = n - 1}, e \in S}

Absent == [kind |-> "absent"]
NotZip == [kind |-> "file"]
Zip(es) == [kind |-> "zip", entries |-> es]
Partial == [kind |-> "partial"]
Built == [kind |-> "built"]

Packages == {Absent, NotZip}
                \cup {Zip(WithPayloads(ns)) : ns \in SeqsUpTo(EntryNames, MaxEntries)}

EmptyTree == <<>>
Put(t, n, d) == [x \in (DOMAIN t) \cup {n} |-> IF x = n THEN d ELSE t[x]]


(***************************************************************************)
(* src/apk_editor.py                                                       *)
(***************************************************************************)
\* The environment as the probes see it: jar, a decompiler at one of the
\* candidate locations; which, a decompiler found by the PATH lookup; java,
\* the runtime answering its version command with exit code zero.
Envs == [jar : BOOLEAN, which : BOOLEAN, java : BOOLEAN]
JarPath == <<"tools", "/", "apktool", ".jar">>
WhichPath == <<"/", "usr", "/", "bin", "/", "apktool">>

\* _find_apktool: the candidate locations first, then the PATH lookup.
find_apktool(e) == IF e.jar THEN JarPath ELSE IF e.which THEN WhichPath ELSE None

\* _find_java
find_java(e) == IF e.java THEN "java" ELSE None

CmdOutcomes == {"ok", "nonzero", "timeout", "launchfail"}

\* What `<runtime> -jar <tool> ...` can come to in environment e: without a
\* tool path the command cannot be built, without the runtime it fails, and
\* without the file at tool the runtime exits with an error.
ToolOutcomes(tool, e) ==
    IF tool = None THEN {"launchfail"}
    ELSE IF ~e.java THEN {"nonzero", "launchfail"}
    ELSE IF (tool = JarPath /\ ~e.jar) \/ (tool = WhichPath /\ ~e.which) THEN {"nonzero"}
    ELSE CmdOutcomes

\* _run_command returning True whenever the command ran to its end.
run_command_any_exit(outcome) == outcome \in {"ok", "nonzero"}

\* _run_command: True exactly on exit code zero; the timeout and every other
\* exception are caught and give False.
run_command(outcome) == outcome = "ok"

KeystorePath == <<"debug", ".keystore">>

\* _create_debug_keystore generating a keystore on every call.
create_debug_keystore_always(ks, keytool) ==
    IF run_command(keytool)
    THEN [path |-> KeystorePath, keystore |-> TRUE, cmds |-> <<"keytool">>]
    ELSE [path |-> IF ks THEN KeystorePath ELSE None, keystore |-> ks,
          cmds |-> <<"keytool">>]

\* _create_debug_keystore: the existing keystore is returned as it is; otherwise
\* keytool is run and the path is returned only when it succeeded.
create_debug_keystore(ks, keytool) ==
    IF ks
    THEN [path |-> KeystorePath, keystore |-> TRUE, cmds |-> <<>>]
    ELSE IF run_command(keytool)
         THEN [path |-> KeystorePath, keystore |-> TRUE, cmds |-> <<"keytool">>]
         ELSE [path |-> None, keystore |-> FALSE, cmds |-> <<"keytool">>]

\* _sign_apk: fault stands for an exception raised inside the try block.
sign_apk(ks, keytool, signer, fault) ==
    IF fault
    THEN [value |-> TRUE, keystore |-> ks, cmds |-> <<>>]
    ELSE LET k == create_debug_keystore(ks, keytool)
         IN  IF k.path = None
             THEN [value |-> TRUE, keystore |-> k.keystore, cmds |-> k.cmds]
             ELSE [value |-> run_command(signer), keystore |-> k.keystore,
                   cmds |-> k.cmds \o <<"jarsigner">>]

\* ZipFile.extractall writes each member below the target directory: empty,
\* "." and ".." components of the member name are dropped.
InvalidPathParts == {<<>>, <<".">>, <<"..">>}
ExtractName(name) == Join(SelectSeq(Split(name), LAMBDA c : c \notin InvalidPathParts))

RECURSIVE ExtractAll(_, _)
ExtractAll(es, t) ==
    IF es = <<>> THEN t
    ELSE ExtractAll(Tail(es), Put(t, ExtractName(es[1].name), es[1].data))

\* _extract_apk_as_zip into a directory emptied beforehand.
extract_apk_as_zip_emptied(p, t) ==
    IF p.kind = "zip"
    THEN [value |-> TRUE, tree |-> ExtractAll(p.entries, EmptyTree)]
    ELSE [value |-> FALSE, tree |-> EmptyTree]

\* _extract_apk_as_zip
extract_apk_as_zip(p, t) ==
    IF p.kind = "zip"
    THEN [value |-> TRUE, tree |-> ExtractAll(p.entries, t)]
    ELSE [value |-> FALSE, tree |-> t]

\* The mode selection made from a fresh look at the environment.
Native_reprobed(tool, java) == find_apktool(env) # None /\ find_java(env) # None

\* The mode selection of decompile_apk and compile_apk.
Native(tool, java) == tool # None /\ java # None

\* decompile_apk with the directory created before the package is looked for.
decompile_apk_mkdir_first(p, dk, t, tool, java, outcome, toolTree) ==
    IF dk = "file"
    THEN [raised |-> TRUE, value |-> FALSE, mode |-> "none", dirKind |-> dk,
          tree |-> t, cmds |-> <<>>]
    ELSE IF p.kind = "absent"
    THEN [raised |-> FALSE, value |-> FALSE, mode |-> "none", dirKind |-> "dir",
          tree |-> t, cmds |-> <<>>]
    ELSE IF Native(tool, java)
    THEN [raised |-> FALSE, value |-> run_command(outcome), mode |-> "native",
          dirKind |-> "dir",
          tree |-> IF outcome = "launchfail" THEN t ELSE toolTree,
          cmds |-> <<"apktool d">>]
    ELSE LET x == extract_apk_as_zip(p, t)
         IN  [raised |-> FALSE, value |-> x.value, mode |-> "fallback",
              dirKind |-> "dir", tree |-> x.tree, cmds |-> <<>>]

\* decompile_apk.  toolTree is what the external decompiler leaves in the
\* directory when it was launched.
decompile_apk(p, dk, t, tool, java, outcome, toolTree) ==
    IF p.kind = "absent"
    THEN [raised |-> FALSE, value |-> FALSE, mode |-> "none", dirKind |-> dk,
          tree |-> t, cmds |-> <<>>]
    ELSE IF dk = "file"
    THEN [raised |-> TRUE, value |-> FALSE, mode |-> "none", dirKind |-> dk,
          tree |-> t, cmds |-> <<>>]
    ELSE IF Native(tool, java)
    THEN [raised |-> FALSE, value |-> run_command(outcome), mode |-> "native",
          dirKind |-> "dir",
          tree |-> IF outcome = "launchfail" THEN t ELSE toolTree,
          cmds |-> <<"apktool d">>]
    ELSE LET x == extract_apk_as_zip(p, t)
         IN  [raised |-> FALSE, value |-> x.value, mode |-> "fallback",
              dirKind |-> "dir", tree |-> x.tree, cmds |-> <<>>]

ProjectDir == <<"proj">>
TempDir == <<"temp">>
OutputPaths == {OutApkName, TempDir \o <<"/">> \o OutApkName,
                ProjectDir \o <<"/">> \o OutApkName}

Dirname(s) == LET cs == Split(s) IN Join(SubSeq(cs, 1, Len(cs) - 1))

IoFaults == {"none", "open", "write"}

\* _create_apk_as_zip with every file stored under its bare file name.
create_apk_as_zip_flat(dk, t, out, ioFault) ==
    LET inside == dk = "dir" /\ Dirname(out) = ProjectDir
        t2 == IF inside THEN Put(t, OutApkName, ArchiveBytes) ELSE t
        walked == IF dk = "dir" THEN SetToSeq(DOMAIN t2) ELSE <<>>
    IN  IF ioFault = "open"
        THEN [value |-> FALSE, written |-> FALSE, node |-> Absent, tree |-> t]
        ELSE IF ioFault = "write" /\ walked # <<>>
        THEN [value |-> FALSE, written |-> TRUE, node |-> Partial, tree |-> t2]
        ELSE [value |-> TRUE, written |-> TRUE,
              node |-> Zip([i \in 1..Len(walked) |->
                               [name |-> Basename(walked[i]), data |-> t2[walked[i]]]]),
              tree |-> t2]

\* _create_apk_as_zip.  The archive is opened for writing before the walk, so
\* an output path inside the project directory is itself one of the walked
\* files.
create_apk_as_zip(dk, t, out, ioFault) ==
    LET inside == dk = "dir" /\ Dirname(out) = ProjectDir
        t2 == IF inside THEN Put(t, OutApkName, ArchiveBytes) ELSE t
        walked == IF dk = "dir" THEN SetToSeq(DOMAIN t2) ELSE <<>>
    IN  IF ioFault = "open"
        THEN [value |-> FALSE, written |-> FALSE, node |-> Absent, tree |-> t]
        ELSE IF ioFault = "write" /\ walked # <<>>
        THEN [value |-> FALSE, written |-> TRUE, node |-> Partial, tree |-> t2]
        ELSE [value |-> TRUE, written |-> TRUE,
              node |-> Zip([i \in 1..Len(walked) |->
                               [name |-> walked[i], data |-> t2[walked[i]]]]),
              tree |-> t2]

\* os.makedirs(path, exist_ok=True) on the three directories of the model:
\* the new kind of the directory, or "raise".
Makedirs(d, dk, tk) ==
    IF d = <<>> THEN "raise"
    ELSE LET k == IF d = ProjectDir THEN dk ELSE tk
         IN  IF k = "file" THEN "raise" ELSE "dir"

\* compile_apk with the archive of the fallback path handed to the signer.
compile_apk_signs_fallback(dk, t, tk, arch, ks, out, tool, java, build, keytool, signer, fault, ioFault) ==
    LET same == [raised |-> FALSE, value |-> FALSE, mode |-> "none", tempKind |-> tk,
                 outFile |-> arch, tree |-> t, keystore |-> ks, sign |-> "none",
                 cmds |-> <<>>, build |-> "none"]
        parent == Dirname(out)
        tk2 == IF parent = TempDir THEN "dir" ELSE tk
    IN  IF dk = "absent" THEN same
        ELSE IF Makedirs(parent, dk, tk) = "raise"
        THEN [same EXCEPT !.raised = TRUE]
        ELSE IF Native(tool, java)
        THEN IF run_command(build)
             THEN LET s == sign_apk(ks, keytool, signer, fault)
                  IN  [raised |-> FALSE, value |-> s.value, mode |-> "native",
                       tempKind |-> tk2, outFile |-> Built,
                       tree |-> t, keystore |-> s.keystore,
                       sign |-> IF s.value THEN "true" ELSE "false",
                       cmds |-> <<"apktool b">> \o s.cmds, build |-> "ok"]
             ELSE [same EXCEPT !.mode = "native", !.tempKind = tk2,
                               !.cmds = <<"apktool b">>, !.build = "failed"]
        ELSE LET z == create_apk_as_zip(dk, t, out, ioFault)
                 s == sign_apk(ks, keytool, signer, fault)
             IN  [raised |-> FALSE, value |-> z.value /\ s.value, mode |-> "fallback",
                  tempKind |-> tk2,
                  outFile |-> IF z.written THEN z.node ELSE arch,
                  tree |-> z.tree, keystore |-> s.keystore,
                  sign |-> IF s.value THEN "true" ELSE "false", cmds |-> s.cmds,
                  build |-> "none"]

\* compile_apk with the signer called whatever the build command returned.
compile_apk_signs_failed_build(dk, t, tk, arch, ks, out, tool, java, build, keytool, signer, fault, ioFault) ==
    LET same == [raised |-> FALSE, value |-> FALSE, mode |-> "none", tempKind |-> tk,
                 outFile |-> arch, tree |-> t, keystore |-> ks, sign |-> "none",
                 cmds |-> <<>>, build |-> "none"]
        parent == Dirname(out)
        tk2 == IF parent = TempDir THEN "dir" ELSE tk
    IN  IF dk = "absent" THEN same
        ELSE IF Makedirs(parent, dk, tk) = "raise"
        THEN [same EXCEPT !.raised = TRUE]
        ELSE IF Native(tool, java)
        THEN LET s == sign_apk(ks, keytool, signer, fault)
             IN  [raised |-> FALSE, value |-> s.value, mode |-> "native",
                  tempKind |-> tk2,
                  outFile |-> IF run_command(build) THEN Built ELSE arch,
                  tree |-> t, keystore |-> s.keystore,
                  sign |-> IF s.value THEN "true" ELSE "false",
                  cmds |-> <<"apktool b">> \o s.cmds,
                  build |-> IF run_command(build) THEN "ok" ELSE "failed"]
        ELSE LET z == create_apk_as_zip(dk, t, out, ioFault)
             IN  [raised |-> FALSE, value |-> z.value, mode |-> "fallback",
                  tempKind |-> tk2,
                  outFile |-> IF z.written THEN z.node ELSE arch,
                  tree |-> z.tree, keystore |-> ks, sign |-> "none", cmds |-> <<>>,
                  build |-> "none"]

\* compile_apk
compile_apk(dk, t, tk, arch, ks, out, tool, java, build, keytool, signer, fault, ioFault) ==
    LET same == [raised |-> FALSE, value |-> FALSE, mode |-> "none", tempKind |-> tk,
                 outFile |-> arch, tree |-> t, keystore |-> ks, sign |-> "none",
                 cmds |-> <<>>, build |-> "none"]
        parent == Dirname(out)
        tk2 == IF parent = TempDir THEN "dir" ELSE tk
    IN  IF dk = "absent" THEN same
        ELSE IF Makedirs(parent, dk, tk) = "raise"
        THEN [same EXCEPT !.raised = TRUE]
        ELSE IF Native(tool, java)
        THEN IF run_command(build)
             THEN LET s == sign_apk(ks, keytool, signer, fault)
                  IN  [raised |-> FALSE, value |-> s.value, mode |-> "native",
                       tempKind |-> tk2, outFile |-> Built,
                       tree |-> t, keystore |-> s.keystore,
                       sign |-> IF s.value THEN "true" ELSE "false",
                       cmds |-> <<"apktool b">> \o s.cmds, build |-> "ok"]
             ELSE [same EXCEPT !.mode = "native", !.tempKind = tk2,
                               !.cmds = <<"apktool b">>, !.build = "failed"]
        ELSE LET z == create_apk_as_zip(dk, t, out, ioFault)
             IN  [raised |-> FALSE, value |-> z.value, mode |-> "fallback",
                  tempKind |-> tk2,
                  outFile |-> IF z.written THEN z.node ELSE arch,
                  tree |-> z.tree, keystore |-> ks, sign |-> "none", cmds |-> <<>>,
                  build |-> "none"]

PackageName == <<"in", ".apk">>
FileSize(n) == IF n.kind = "absent" THEN 0
               ELSE IF n.kind = "zip" THEN 1 + Len(n.entries) ELSE 1

\* get_apk_info with the entry count present in the record from the start.
get_apk_info_count_preset(p) ==
    LET info == [filename |-> Basename(PackageName), size |-> FileSize(p),
                 valid |-> FALSE, files_count |-> 0]
    IN  IF p.kind = "zip"
        THEN LET files == [i \in 1..Len(p.entries) |-> p.entries[i].name]
                 has_manifest == ManifestName \in Range(files)
                 has_dex == \E f \in Range(files) : EndsWith(f, <<".dex">>)
             IN  [filename |-> info.filename, size |-> info.size,
                  valid |-> has_manifest /\ has_dex, files_count |-> Len(files)]
        ELSE info

\* get_apk_info accepting a package that has either of the two essentials.
get_apk_info_either(p) ==
    LET info == [filename |-> Basename(PackageName), size |-> FileSize(p),
                 valid |-> FALSE]
    IN  IF p.kind = "zip"
        THEN LET files == [i \in 1..Len(p.entries) |-> p.entries[i].name]
                 has_manifest == ManifestName \in Range(files)
                 has_dex == \E f \in Range(files) : EndsWith(f, <<".dex">>)
             IN  [filename |-> info.filename, size |-> info.size,
                  valid |-> has_manifest \/ has_dex, files_count |-> Len(files)]
        ELSE info

\* get_apk_info
get_apk_info(p) ==
    LET info == [filename |-> Basename(PackageName), size |-> FileSize(p),
                 valid |-> FALSE]
    IN  IF p.kind = "zip"
        THEN LET files == [i \in 1..Len(p.entries) |-> p.entries[i].name]
                 has_manifest == ManifestName \in Range(files)
                 has_dex == \E f \in Range(files) : EndsWith(f, <<".dex">>)
             IN  [filename |-> info.filename, size |-> info.size,
                  valid |-> has_manifest /\ has_dex, files_count |-> Len(files)]
        ELSE info


(***************************************************************************)
(* The editor as a state machine.                                          *)
(***************************************************************************)
NoRoundTrip == [active |-> FALSE, entries |-> <<>>, fresh |-> FALSE]
NoInfo == [filename |-> None]

\* sign is what _sign_apk returned to the operation: "none" when it was not
\* called; build is how the build command of a native compile ended.
Ret(op, raised, value, mode, sign, cmds, info) ==
    [op |-> op, raised |-> raised, value |-> value, mode |-> mode, sign |-> sign,
     cmds |-> cmds, info |-> info, build |-> "none"]

ToolTrees == {EmptyTree, Put(EmptyTree, ManifestName, 1)}
InitialDirs == {<<"absent", EmptyTree>>, <<"file", EmptyTree>>, <<"dir", EmptyTree>>,
                <<"dir", Put(EmptyTree, LeftoverName, 1)>>}
\* An output path and what its parent "temp" is before the first compile.
OutputSetups == {<<o, "absent">> : o \in OutputPaths}
                    \cup {<<TempDir \o <<"/">> \o OutApkName, "file">>}

\* APKEditor.__init__: the two probes run once and their results are kept.
InitEditor ==
    /\ env \in {e \in Envs : ~e.which}
    /\ apktool_path = find_apktool(env)
    /\ java_path = find_java(env)
    /\ pkg \in Packages
    /\ \E d \in InitialDirs : dirKind = d[1] /\ tree = d[2]
    /\ \E o \in OutputSetups : output_path = o[1] /\ tempKind = o[2]
    /\ outFile = Absent
    /\ keystore = FALSE
    /\ ret = Ret("none", FALSE, FALSE, "none", "none", <<>>, NoInfo)
    /\ roundTrip = NoRoundTrip

NoExport == [done |-> FALSE, value |-> FALSE, name |-> <<>>]

InitExportIdle ==
    /\ projTree = EmptyTree
    /\ cwdTree = EmptyTree
    /\ bundle = Absent
    /\ exportRet = NoExport

\* No request has been served and no project exists.
NoRequest == [op |-> "none", id |-> 0, ok |-> FALSE, removed |-> <<>>]

InitProjectsIdle ==
    /\ records = EmptyTree
    /\ stored = EmptyTree
    /\ projectDirs = EmptyTree
    /\ request = NoRequest

Init == InitEditor /\ InitExportIdle /\ InitProjectsIdle

DecompileWith(outcome, toolTree) ==
    LET r == decompile_apk(pkg, dirKind, tree, apktool_path, java_path,
                           outcome, toolTree)
    IN  /\ dirKind' = r.dirKind
        /\ tree' = r.tree
        /\ roundTrip' = IF r.mode = "fallback" /\ r.value
                        THEN [active |-> TRUE, entries |-> pkg.entries,
                              fresh |-> DOMAIN tree = {}]
                        ELSE IF r.mode = "native" THEN NoRoundTrip ELSE roundTrip
        /\ ret' = Ret("decompile", r.raised, r.value, r.mode, "none", r.cmds, NoInfo)
        /\ UNCHANGED <<apktool_path, java_path, env, pkg, tempKind, output_path,
                       outFile, keystore>>
        /\ UNCHANGED <<exportVars, projectVars>>

Decompile ==
    IF Native(apktool_path, java_path) /\ pkg.kind # "absent" /\ dirKind # "file"
    THEN \E outcome \in ToolOutcomes(apktool_path, env), toolTree \in ToolTrees :
            DecompileWith(outcome, toolTree)
    ELSE DecompileWith("ok", EmptyTree)

CompileWith(build, keytool, signer, fault, ioFault) ==
    LET r == compile_apk(dirKind, tree, tempKind, outFile, keystore, output_path,
                         apktool_path, java_path, build, keytool, signer,
                         fault, ioFault)
    IN  /\ tempKind' = r.tempKind
        /\ outFile' = r.outFile
        /\ tree' = r.tree
        /\ keystore' = r.keystore
        /\ roundTrip' = IF r.tree = tree THEN roundTrip ELSE NoRoundTrip
        /\ ret' = [Ret("compile", r.raised, r.value, r.mode, r.sign, r.cmds, NoInfo)
                      EXCEPT !.build = r.build]
        /\ UNCHANGED <<apktool_path, java_path, env, pkg, dirKind, output_path>>
        /\ UNCHANGED <<exportVars, projectVars>>

Compile ==
    IF Native(apktool_path, java_path)
    THEN \E build \in ToolOutcomes(apktool_path, env) :
            IF run_command(build)
            THEN \E keytool \in CmdOutcomes, signer \in CmdOutcomes, fault \in BOOLEAN :
                    CompileWith(build, keytool, signer, fault, "none")
            ELSE CompileWith(build, "ok", "ok", FALSE, "none")
    ELSE \E ioFault \in IoFaults : CompileWith("ok", "ok", "ok", FALSE, ioFault)

GetInfo ==
    /\ ret' = Ret("getInfo", FALSE, FALSE, "none", "none", <<>>, get_apk_info(pkg))
    /\ UNCHANGED <<apktool_path, java_path, env, pkg, dirKind, tree, tempKind,
                   output_path, outFile, keystore, roundTrip>>
    /\ UNCHANGED <<exportVars, projectVars>>

\* The project tree is edited between decompile and compile (save_file); the
\* model follows one edit of a freshly extracted tree.
EditFile ==
    /\ dirKind = "dir"
    /\ roundTrip.active
    /\ \E n \in DOMAIN tree :
        /\ n # OutApkName
        /\ tree[n] # EditedBytes
        /\ tree' = Put(tree, n, EditedBytes)
    /\ roundTrip' = NoRoundTrip
    /\ UNCHANGED <<apktool_path, java_path, env, pkg, dirKind, tempKind, output_path,
                   outFile, keystore, ret>>
    /\ UNCHANGED <<exportVars, projectVars>>

Next == Decompile \/ Compile \/ GetInfo \/ EditFile

Spec == Init /\ [][Next]_vars

(***************************************************************************)
(* The editor in an environment that changes after construction.           *)
(***************************************************************************)
\* is_ready
is_ready(tool, java) ==
    [apktool_available |-> tool # None, java_available |-> java # None,
     ready |-> TRUE, simulation_mode |-> tool = None]

\* APKEditor.__init__ in any environment; one package, one output path.
InitEnv ==
    /\ env \in Envs
    /\ apktool_path = find_apktool(env)
    /\ java_path = find_java(env)
    /\ pkg \in {Absent, NotZip, Zip(WithPayloads(<<ManifestName, NestedDexName>>))}
    /\ dirKind \in {"absent", "dir"}
    /\ tree = EmptyTree
    /\ output_path = TempDir \o <<"/">> \o OutApkName
    /\ tempKind = "dir"
    /\ outFile = Absent
    /\ keystore = FALSE
    /\ ret = Ret("none", FALSE, FALSE, "none", "none", <<>>, NoInfo)
    /\ roundTrip = NoRoundTrip
    /\ InitExportIdle
    /\ InitProjectsIdle

IsReady ==
    /\ ret' = Ret("ready", FALSE, FALSE, "none", "none", <<>>,
                  is_ready(apktool_path, java_path))
    /\ UNCHANGED <<apktool_path, java_path, env, pkg, dirKind, tree, tempKind,
                   output_path, outFile, keystore, roundTrip>>
    /\ UNCHANGED <<exportVars, projectVars>>

\* Tools are installed and removed while the process runs.
ChangeEnv ==
    /\ env' \in Envs \ {env}
    /\ UNCHANGED <<apktool_path, java_path, pkg, dirKind, tree, tempKind,
                   output_path, outFile, keystore, ret, roundTrip>>
    /\ UNCHANGED <<exportVars, projectVars>>

NextEnv == Decompile \/ Compile \/ GetInfo \/ EditFile \/ IsReady \/ ChangeEnv

SpecEnv == InitEnv /\ [][NextEnv]_vars


(***************************************************************************)
(* Properties of the editor, checked under Spec.                           *)
(***************************************************************************)

\* C1: sign returns true in every case: whenever an operation called the
\* signer, the signer returned true.
C1_SignAlwaysTrue == ret.sign # "false"

\* C2: no public operation lets a fault escape to its caller.
C2_NoFaultEscapes == ~ret.raised

\* C3 as stated: decompile of a package path that does not exist returns false
\* and leaves the output directory created.
C3_MissingPackageCreatesDir ==
    (ret.op = "decompile" /\ pkg.kind = "absent")
        => (~ret.raised /\ ~ret.value /\ dirKind = "dir")

\* C3 as amended: decompile of a package path that does not exist returns
\* false and leaves the output directory as it was: it is not created when
\* absent and nothing is extracted into it.
C3_MissingPackageLeavesDir ==
    [][(Decompile /\ pkg.kind = "absent")
          => (~ret'.raised /\ ~ret'.value /\ dirKind' = dirKind /\ tree' = tree)]_vars

C3_Witness ==
    /\ ret.op = "decompile"
    /\ pkg.kind = "absent"
    /\ ~ret.value
    /\ dirKind = "absent"

FileSet(es) == {[name |-> es[i].name, data |-> es[i].data] : i \in 1..Len(es)}

\* C4 as stated: in fallback mode, decompile of any package followed by
\* compile of the unmodified tree yields an archive with exactly the
\* package's (relative path, bytes) pairs.
C4_RoundTripAlways ==
    [][(/\ Compile
        /\ roundTrip.active
        /\ Dirname(output_path) # ProjectDir
        /\ ret'.mode = "fallback"
        /\ ret'.value)
          => (outFile'.kind = "zip"
                /\ FileSet(outFile'.entries) = FileSet(roundTrip.entries))]_vars

PlainNames(es) ==
    /\ \A i \in 1..Len(es) : ExtractName(es[i].name) = es[i].name
    /\ \A i, j \in 1..Len(es) : es[i].name = es[j].name => i = j

\* C4 as amended: the round trip holds when decompile and compile both
\* return true, the package's entry names are pairwise distinct relative
\* paths without empty, "." or ".." components, the output directory was
\* absent or empty before decompile, and the output path lies outside it.
C4_RoundTrip ==
    [][(/\ Compile
        /\ roundTrip.active
        /\ roundTrip.fresh
        /\ PlainNames(roundTrip.entries)
        /\ Dirname(output_path) # ProjectDir
        /\ ret'.mode = "fallback"
        /\ ret'.value)
          => (/\ outFile'.kind = "zip"
              /\ FileSet(outFile'.entries) = FileSet(roundTrip.entries)
              /\ Len(outFile'.entries) = Len(roundTrip.entries))]_vars

C4_Witness ==
    /\ ret.op = "compile"
    /\ ret.mode = "fallback"
    /\ ret.value
    /\ roundTrip.active
    /\ roundTrip.fresh
    /\ PlainNames(roundTrip.entries)
    /\ Len(roundTrip.entries) >= 2
    /\ \E i \in 1..Len(roundTrip.entries) : roundTrip.entries[i].name = NestedDexName
    /\ outFile.kind = "zip"
    /\ FileSet(outFile.entries) = FileSet(roundTrip.entries)

\* C5: getInfo reports valid exactly when the package opens as an archive that
\* holds the manifest entry and at least one entry ending in .dex.
C5_ValidIff ==
    ret.op = "getInfo"
        => (ret.info.valid
              <=> (/\ pkg.kind = "zip"
                   /\ \E i \in 1..Len(pkg.entries) : pkg.entries[i].name = ManifestName
                   /\ \E i \in 1..Len(pkg.entries) :
                         EndsWith(pkg.entries[i].name, <<".dex">>)))

C5_Witness ==
    /\ ret.op = "getInfo"
    /\ ret.info.valid
    /\ pkg.kind = "zip"

TreeFiles(t) == {[name |-> n, data |-> t[n]] : n \in DOMAIN t}

\* C11 as stated: in fallback mode, compile of an existing project directory
\* returns true, the archive's entries are exactly the regular files of the
\* directory at their relative paths with their bytes, and neither the
\* keystore generation nor the signing command is invoked.  (Calls that end
\* in a raised fault are the subject of C2 and are left aside here.)
C11_FallbackCompileAlways ==
    [][(/\ ~Native(apktool_path, java_path)
        /\ dirKind = "dir"
        /\ ~ret'.raised
        /\ Compile)
          => (/\ ret'.value
              /\ outFile'.kind = "zip"
              /\ FileSet(outFile'.entries) = TreeFiles(tree)
              /\ Len(outFile'.entries) = Cardinality(DOMAIN tree)
              /\ ret'.sign = "none"
              /\ ret'.cmds = <<>>
              /\ keystore' = keystore)]_vars

\* C11 as amended: in fallback mode, compile of an existing project directory
\* invokes no signing step, and whenever it returns true with an output path
\* outside the project directory, the archive's entries are exactly the
\* regular files of the directory at their relative paths with their bytes.
C11_FallbackCompile ==
    [][(/\ ~Native(apktool_path, java_path)
        /\ dirKind = "dir"
        /\ Compile)
          => (/\ ret'.sign = "none"
              /\ ret'.cmds = <<>>
              /\ keystore' = keystore
              /\ (ret'.value /\ Dirname(output_path) # ProjectDir)
                    => (/\ outFile'.kind = "zip"
                        /\ FileSet(outFile'.entries) = TreeFiles(tree)
                        /\ Len(outFile'.entries) = Cardinality(DOMAIN tree)
                        /\ tree' = tree))]_vars

C11_Witness ==
    /\ ret.op = "compile"
    /\ ret.mode = "fallback"
    /\ ret.value
    /\ ret.cmds = <<>>
    /\ ~keystore
    /\ dirKind = "dir"
    /\ Dirname(output_path) # ProjectDir
    /\ outFile.kind = "zip"
    /\ Len(outFile.entries) >= 2
    /\ FileSet(outFile.entries) = TreeFiles(tree)
    /\ \E n \in DOMAIN tree : Len(Split(n)) >= 2


\* C13: the keystore generation command is invoked only while the keystore
\* is absent; once the keystore exists, every later signing call keeps it and
\* invokes no generation.
C13_KeystoreGeneratedOnce ==
    [][/\ ("keytool" \in Range(ret'.cmds) /\ Compile) => ~keystore
       /\ keystore => keystore']_vars

C13_Witness ==
    /\ ret.op = "compile"
    /\ keystore
    /\ ret.sign # "none"
    /\ ret.cmds = <<"apktool b", "jarsigner">>

\* C14: in native mode, compile calls the signer only after the build command
\* has succeeded and then returns exactly what the signer returned; when the
\* build command fails, compile returns false and the signer is not called.
C14_SignAfterBuild ==
    (ret.op = "compile" /\ ret.mode = "native")
        => IF ret.build = "ok"
           THEN /\ ret.cmds[1] = "apktool b"
                /\ ret.sign # "none"
                /\ ret.value <=> (ret.sign = "true")
           ELSE /\ ret.build = "failed"
                /\ ~ret.value
                /\ ret.sign = "none"
                /\ ret.cmds = <<"apktool b">>

C14_Witness ==
    /\ ret.op = "compile"
    /\ ret.mode = "native"
    /\ ret.cmds = <<"apktool b", "keytool", "jarsigner">>
    /\ ret.sign = "false"
    /\ ~ret.value

\* C15: the process runner returns true exactly when the command ran to
\* completion with exit code zero; a non-zero exit, a timeout and a launch
\* failure each give false, and none of them is raised.  It is observed
\* through native decompile, which returns the runner's result, and through
\* the build command of native compile.
C15_RunnerTrueIffExitZero ==
    [][/\ \A outcome \in CmdOutcomes, toolTree \in ToolTrees :
            (ret'.mode = "native" /\ DecompileWith(outcome, toolTree))
                => (~ret'.raised /\ (ret'.value <=> outcome = "ok"))
       /\ \A build \in CmdOutcomes \ {"ok"} :
            (ret'.mode = "native" /\ CompileWith(build, "ok", "ok", FALSE, "none"))
                => (~ret'.raised /\ ~ret'.value /\ ret'.sign = "none")]_vars

C15_Witness ==
    /\ ret.op = "decompile"
    /\ ret.mode = "native"
    /\ ret.cmds = <<"apktool d">>
    /\ ~ret.value
    /\ ~ret.raised
    /\ pkg.kind = "zip"

\* C16: getInfo of a path that does not exist reports size 0 and valid false;
\* when the file does not open as an archive it reports valid false and the
\* record has no entry count; when the archive opens, the entry count is the
\* number of its entries; and getInfo does not raise.
C16_InfoOfUnreadable ==
    ret.op = "getInfo"
        => /\ ~ret.raised
           /\ pkg.kind = "absent" => (ret.info.size = 0 /\ ~ret.info.valid)
           /\ pkg.kind # "zip"
                => (~ret.info.valid /\ "files_count" \notin DOMAIN ret.info)
           /\ pkg.kind = "zip"
                => (/\ "files_count" \in DOMAIN ret.info
                    /\ ret.info.files_count = Len(pkg.entries))

C16_Witness ==
    /\ ret.op = "getInfo"
    /\ pkg.kind = "file"
    /\ ret.info.size > 0
    /\ ~ret.info.valid
    /\ "files_count" \notin DOMAIN ret.info

EntryNamesOf(es) == {es[i].name : i \in 1..Len(es)}

\* C20 as stated: after a successful fallback decompile of a package (with
\* pairwise distinct plain entry names) the output directory exists and its
\* files are exactly the package's entries with their bytes: nothing is left
\* over from what the directory held before.
C20_DecompileOverwrites ==
    [][(/\ Decompile
        /\ ret'.mode = "fallback"
        /\ ret'.value
        /\ PlainNames(pkg.entries))
          => (/\ dirKind' = "dir"
              /\ TreeFiles(tree') = FileSet(pkg.entries))]_vars

\* C20 as amended: after such a decompile the output directory exists, every
\* entry of the package is a file of it with its bytes (replacing a file of
\* the same name), and the files it held before under other names are still
\* there unchanged; its files are exactly the package's entries when it was
\* absent or empty before.
C20_DecompileMerges ==
    [][(/\ Decompile
        /\ ret'.mode = "fallback"
        /\ ret'.value
        /\ PlainNames(pkg.entries))
          => (/\ dirKind' = "dir"
              /\ FileSet(pkg.entries) \subseteq TreeFiles(tree')
              /\ DOMAIN tree' = DOMAIN tree \cup EntryNamesOf(pkg.entries)
              /\ \A n \in DOMAIN tree \ EntryNamesOf(pkg.entries) : tree'[n] = tree[n]
              /\ DOMAIN tree = {} => TreeFiles(tree') = FileSet(pkg.entries))]_vars

C20_Witness ==
    /\ ret.op = "decompile"
    /\ ret.mode = "fallback"
    /\ ret.value
    /\ PlainNames(pkg.entries)
    /\ Len(pkg.entries) >= 2
    /\ FileSet(pkg.entries) \subseteq TreeFiles(tree)
    /\ LeftoverName \in DOMAIN tree

(***************************************************************************)
(* src/app.py: the Android Studio export.                                  *)
(*                                                                         *)
(* A file is [content, size, readable].  The content classes are:          *)
(*   "decl"        well-formed markup that begins with an XML declaration  *)
(*   "nodecl"      well-formed markup without the text "<?xml"             *)
(*   "malformed"   text that does not parse, such as "<<<"                 *)
(*   "blank"       empty or whitespace only                                *)
(*   "undecodable" bytes that are not UTF-8 text                           *)
(***************************************************************************)
Decodes(c) == c # "undecodable"
IsBlank(c) == c = "blank"
Parses(c) == c \in {"decl", "nodecl"}
HasXmlMarker(c) == c = "decl"

LargeFileLimit == 50 * 1024 * 1024

File(c, n, r) == [content |-> c, size |-> n, readable |-> r]

ProblematicDirs == {<<"drawable-ldrtl-">>, <<"color-v31", "/">>, <<"drawable-v31", "/">>,
                    <<"layout-v31", "/">>, <<"values-v31", "/">>,
                    <<"mipmap-anydpi-v26", "/">>}
UnsafeChars == {"?", ":", "<", ">", "|", "\"", "*"}

\* should_skip_file.  The caller passes the path relative to the project
\* directory, and os.path.exists, os.path.getsize and open resolve it against
\* the working directory of the process: cwd holds the files found there.
should_skip_file(file_path, cwd) ==
    IF EndsWith(file_path, <<".9", ".png">>) THEN TRUE
    ELSE IF EndsWith(file_path, <<".arsc">>) THEN TRUE
    ELSE IF EndsWith(file_path, <<".dex">>) THEN TRUE
    ELSE IF EndsWith(file_path, <<".kotlin_builtins">>) THEN TRUE
    ELSE IF /\ Contains(file_path, <<"META-INF", "/">>)
            /\ \/ EndsWith(file_path, <<".RSA">>)
               \/ EndsWith(file_path, <<".SF">>)
               \/ EndsWith(file_path, <<".MF">>)
         THEN TRUE
    ELSE IF \E d \in ProblematicDirs : Contains(file_path, d) THEN TRUE
    ELSE IF \E ch \in UnsafeChars : Contains(Basename(file_path), <<ch>>) THEN TRUE
    ELSE IF file_path \in DOMAIN cwd /\ cwd[file_path].size > LargeFileLimit THEN TRUE
    ELSE IF EndsWith(file_path, <<".xml">>)
         THEN IF file_path \notin DOMAIN cwd THEN TRUE
              ELSE IF ~cwd[file_path].readable THEN TRUE
              ELSE IF ~Decodes(cwd[file_path].content) THEN TRUE
              ELSE IF IsBlank(cwd[file_path].content) THEN TRUE
              ELSE ~Parses(cwd[file_path].content)
    ELSE FALSE

\* str.lower and str.replace on the tokens of a project name.
LowerToken(tok) == IF tok = "My" THEN "my" ELSE IF tok = "App" THEN "app" ELSE tok
Lower(s) == [i \in 1..Len(s) |-> LowerToken(s[i])]
Replace(s, old, new) == [i \in 1..Len(s) |-> IF s[i] = old THEN new ELSE s[i]]

ProjectNames == {<<"My", " ", "App">>, <<"my", "-", "app">>}

AppMain == <<"app", "/", "src", "/", "main", "/">>
MainManifestPath == AppMain \o ManifestName
\* ids are the identifiers derived from the project name that the text of a
\* generated entry carries.
ScaffoldWith(path, what, ids) ==
    [path |-> path, origin |-> "scaffold", from |-> <<>>, content |-> what, ids |-> ids]
Scaffold(path, what) == ScaffoldWith(path, what, <<>>)
Copied(path, arc_path, f) ==
    [path |-> path, origin |-> "tree", from |-> arc_path, content |-> f.content,
     ids |-> <<>>]

\* The identifiers the export derives from the project name.
GradleNamespace(project_name) ==
    Replace(Replace(Lower(project_name), " ", "_"), "-", "_")
GradleApplicationId(project_name) ==
    Replace(Replace(Lower(project_name), " ", "_"), "-", "_")
MainActivityPackage(project_name) == Replace(Lower(project_name), " ", "_")
MainActivityDir(project_name) == Replace(Lower(project_name), " ", "_")
ManifestPackage(project_name) ==
    Replace(Replace(Lower(project_name), " ", "_"), "-", "_")

BuildGradlePath == <<"app", "/", "build", ".gradle">>
MainActivityPath(project_name) ==
    AppMain \o <<"java", "/">> \o MainActivityDir(project_name)
        \o <<"/", "MainActivity", ".java">>

\* The entries written before the walk.
ScaffoldBeforeWalk(project_name) ==
    << Scaffold(<<"gradle", "/", "wrapper", "/", "gradle-wrapper", ".properties">>,
                "gradle_wrapper_properties"),
       Scaffold(<<"gradle", "/", "wrapper", "/", "gradle-wrapper", ".jar">>, "empty"),
       Scaffold(<<"gradlew", ".bat">>, "gradle_wrapper_bat"),
       Scaffold(<<"gradlew">>, "gradle_wrapper_content"),
       ScaffoldWith(BuildGradlePath, "app_build_gradle",
                    <<GradleNamespace(project_name), GradleApplicationId(project_name)>>),
       Scaffold(<<"settings", ".gradle">>, "settings_gradle"),
       Scaffold(<<"local", ".properties">>, "local_properties"),
       Scaffold(<<"build", ".gradle">>, "project_build_gradle"),
       Scaffold(<<"gradle", ".properties">>, "gradle_properties"),
       ScaffoldWith(MainActivityPath(project_name), "main_activity_java",
                    <<MainActivityPackage(project_name)>>),
       ScaffoldWith(MainManifestPath, "manifest_content",
                    <<ManifestPackage(project_name)>>) >>

\* The entries written after the walk.
ScaffoldAfterWalk ==
    << Scaffold(AppMain \o <<"res", "/", "layout", "/", "activity_main", ".xml">>,
                "basic_layout"),
       Scaffold(AppMain \o <<"res", "/", "values", "/", "strings", ".xml">>, "strings_xml"),
       Scaffold(AppMain \o <<"res", "/", "values", "/", "styles", ".xml">>, "styles_xml"),
       Scaffold(<<"app", "/", "proguard-rules", ".pro">>, "proguard_rules"),
       Scaffold(<<"README", ".md">>, "readme_content") >>

\* The loop body with every file that is kept placed under assets.
CopyFile_all_assets(arc_path, f, cwd) ==
    IF should_skip_file(arc_path, cwd) THEN <<>>
    ELSE IF arc_path = ManifestName
    THEN IF f.readable /\ Decodes(f.content) /\ ~IsBlank(f.content)
              /\ HasXmlMarker(f.content)
         THEN <<Copied(MainManifestPath, arc_path, f)>>
         ELSE <<>>
    ELSE IF f.readable
    THEN <<Copied(AppMain \o <<"assets", "/">> \o arc_path, arc_path, f)>>
    ELSE <<>>

\* One iteration of the loop over the walked files: the entries it writes.
CopyFile(arc_path, f, cwd) ==
    IF should_skip_file(arc_path, cwd) THEN <<>>
    ELSE IF StartsWith(arc_path, <<"res", "/">>)
    THEN IF f.readable THEN <<Copied(AppMain \o arc_path, arc_path, f)>> ELSE <<>>
    ELSE IF arc_path = ManifestName
    THEN IF f.readable /\ Decodes(f.content) /\ ~IsBlank(f.content)
              /\ HasXmlMarker(f.content)
         THEN <<Copied(MainManifestPath, arc_path, f)>>
         ELSE <<>>
    ELSE IF f.readable
    THEN <<Copied(AppMain \o <<"assets", "/">> \o arc_path, arc_path, f)>>
    ELSE <<>>

RECURSIVE CopyFiles(_, _, _)
CopyFiles(walked, t, cwd) ==
    IF walked = <<>> THEN <<>>
    ELSE CopyFile(walked[1], t[walked[1]], cwd) \o CopyFiles(Tail(walked), t, cwd)

ExportFaults == {"none", "open", "write"}

\* create_android_studio_export without the handler around the copy of one
\* file: the first copy that fails ends the export.
create_android_studio_export_no_isolation(t, cwd, old, project_name, fault) ==
    IF fault = "open" THEN [value |-> FALSE, bundle |-> old]
    ELSE IF fault = "write" THEN [value |-> FALSE, bundle |-> Partial]
    ELSE IF \E path \in DOMAIN t : ~should_skip_file(path, cwd) /\ ~t[path].readable
    THEN [value |-> FALSE, bundle |-> Partial]
    ELSE [value |-> TRUE,
          bundle |-> Zip(ScaffoldBeforeWalk(project_name)
                            \o CopyFiles(SetToSeq(DOMAIN t), t, cwd)
                            \o ScaffoldAfterWalk)]

\* create_android_studio_export.  fault is an exception outside the per-file
\* handler: when the archive is opened, or while an entry is written.
create_android_studio_export(t, cwd, old, project_name, fault) ==
    IF fault = "open" THEN [value |-> FALSE, bundle |-> old]
    ELSE IF fault = "write" THEN [value |-> FALSE, bundle |-> Partial]
    ELSE [value |-> TRUE,
          bundle |-> Zip(ScaffoldBeforeWalk(project_name)
                            \o CopyFiles(SetToSeq(DOMAIN t), t, cwd)
                            \o ScaffoldAfterWalk)]

(***************************************************************************)
(* The export as a state machine.                                          *)
(***************************************************************************)
LayoutPath == <<"res", "/", "layout", "/", "activity_main", ".xml">>
IconV31Path == <<"res", "/", "drawable-v31", "/", "icon", ".xml">>
CertPath == <<"META-INF", "/", "CERT", ".RSA">>
NinePatchPath == <<"res", "/", "drawable", "/", "bg", ".9", ".png">>
DataPath == <<"lib", "/", "data", ".bin">>
UnsafePath == <<"res", "/", "raw", "/", "a", "?", ".txt">>

\* The files a project tree of the model is made of.
ProjectFiles ==
    {<<ManifestName, File(c, 1, TRUE)>> :
        c \in {"decl", "nodecl", "malformed", "blank", "undecodable"}}
    \cup {<<LayoutPath, File(c, 1, TRUE)>> : c \in {"decl", "malformed"}}
    \cup {<<IconV31Path, File("decl", 1, TRUE)>>,
          <<CertPath, File("undecodable", 1, TRUE)>>,
          <<NinePatchPath, File("undecodable", 1, TRUE)>>,
          <<DexName, File("undecodable", 1, TRUE)>>,
          <<UnsafePath, File("nodecl", 1, TRUE)>>,
          <<DataPath, File("undecodable", LargeFileLimit, TRUE)>>,
          <<DataPath, File("undecodable", LargeFileLimit + 1, TRUE)>>,
          <<DataPath, File("undecodable", 1, FALSE)>>,
          <<ManifestName, File("decl", 1, FALSE)>>}

\* The files that may lie at the same relative paths under the working directory.
CwdFiles ==
    {<<ManifestName, File("decl", 1, TRUE)>>,
     <<ManifestName, File("malformed", 1, TRUE)>>,
     <<LayoutPath, File("decl", 1, TRUE)>>,
     <<LayoutPath, File("malformed", 1, TRUE)>>,
     <<DataPath, File("undecodable", LargeFileLimit + 1, TRUE)>>}

RECURSIVE TreesOf(_, _)
TreesOf(files, n) ==
    IF n = 0 THEN {EmptyTree}
    ELSE LET smaller == TreesOf(files, n - 1)
         IN  smaller \cup UNION {{Put(t, f[1], f[2]) :
                                      t \in {u \in smaller : f[1] \notin DOMAIN u}} :
                                   f \in files}

InitEditorIdle ==
    /\ apktool_path = None
    /\ java_path = None
    /\ env = [jar |-> FALSE, which |-> FALSE, java |-> FALSE]
    /\ pkg = Absent
    /\ dirKind = "absent"
    /\ tree = EmptyTree
    /\ output_path = OutApkName
    /\ tempKind = "absent"
    /\ outFile = Absent
    /\ keystore = FALSE
    /\ ret = Ret("none", FALSE, FALSE, "none", "none", <<>>, NoInfo)
    /\ roundTrip = NoRoundTrip

InitExport ==
    /\ InitEditorIdle
    /\ projTree \in TreesOf(ProjectFiles, MaxFiles)
    /\ cwdTree \in TreesOf(CwdFiles, MaxCwdFiles)
    /\ bundle = Absent
    /\ exportRet = NoExport
    /\ InitProjectsIdle

ExportWith(project_name, fault) ==
    LET r == create_android_studio_export(projTree, cwdTree, bundle,
                                          project_name, fault)
    IN  /\ bundle' = r.bundle
        /\ exportRet' = [done |-> TRUE, value |-> r.value, name |-> project_name]
        /\ UNCHANGED <<projTree, cwdTree>>
        /\ UNCHANGED <<editorVars, projectVars>>

Export ==
    \E project_name \in ProjectNames, fault \in ExportFaults :
        ExportWith(project_name, fault)

Remove(t, n) == [x \in (DOMAIN t) \ {n} |-> t[x]]

\* Files under the working directory come and go independently of the
\* project, one at a time.
ChangeCwd ==
    /\ \/ \E f \in CwdFiles :
            /\ cwdTree' = Put(cwdTree, f[1], f[2])
            /\ cwdTree' # cwdTree
            /\ Cardinality(DOMAIN cwdTree') <= MaxCwdFiles
       \/ \E n \in DOMAIN cwdTree : cwdTree' = Remove(cwdTree, n)
    /\ UNCHANGED <<projTree, bundle, exportRet>>
    /\ UNCHANGED <<editorVars, projectVars>>

NextExport == Export \/ ChangeCwd

SpecExport == InitExport /\ [][NextExport]_vars


(***************************************************************************)
(* Properties of the export, checked under SpecExport.                     *)
(***************************************************************************)
Exported == exportRet.done /\ exportRet.value /\ bundle.kind = "zip"

CopiedFrom(arc_path) ==
    \E i \in 1..Len(bundle.entries) :
        bundle.entries[i].origin = "tree" /\ bundle.entries[i].from = arc_path

SigningMetadata(path) ==
    /\ Contains(path, <<"META-INF", "/">>)
    /\ \/ EndsWith(path, <<".RSA">>)
       \/ EndsWith(path, <<".SF">>)
       \/ EndsWith(path, <<".MF">>)

InProblematicDir(path) == \E d \in ProblematicDirs : Contains(path, d)

UnsafeName(path) == \E ch \in UnsafeChars : Contains(Basename(path), <<ch>>)

\* A markup file of the project tree that no exclusion rule applies to.
GoodMarkup(path, f) ==
    /\ EndsWith(path, <<".xml">>)
    /\ f.readable
    /\ Parses(f.content)
    /\ ~InProblematicDir(path)
    /\ ~SigningMetadata(path)
    /\ ~UnsafeName(path)
    /\ f.size <= LargeFileLimit

\* C6: a well-formed, non-empty markup file outside the excluded directories,
\* with a safe name and at most 50 MiB, is never skipped: the export finds
\* shouldSkip false for it and writes it into the bundle.  (The root manifest,
\* which the export maps by a rule of its own, is left aside.)
C6_GoodMarkupKept ==
    Exported =>
        \A path \in DOMAIN projTree :
            (GoodMarkup(path, projTree[path]) /\ path # ManifestName)
                => CopiedFrom(path)

\* C7: shouldSkip is a function of the relative path and of the content of
\* that file in the project tree: while these stay the same its result stays
\* the same, whatever else changes in the filesystem.
C7_SkipIsPure ==
    [][\A path \in DOMAIN projTree :
          (path \in DOMAIN projTree' /\ projTree'[path] = projTree[path])
              => (should_skip_file(path, cwdTree') <=> should_skip_file(path, cwdTree))]_vars

\* A file of the project tree that an exclusion rule of C8 applies to.
MustBeExcluded(path, content) ==
    \/ SigningMetadata(path)
    \/ EndsWith(path, <<".9", ".png">>)
    \/ InProblematicDir(path)
    \/ EndsWith(path, <<".xml">>) /\ ~Parses(content)

\* C8: a successful export holds no entry copied from a file that matches an
\* exclusion rule: signing metadata, *.9.png, a problematic versioned
\* resource directory, or markup whose content fails to parse.
C8_ExcludedAbsent ==
    Exported =>
        \A i \in 1..Len(bundle.entries) :
            bundle.entries[i].origin = "tree"
                => ~MustBeExcluded(bundle.entries[i].from, bundle.entries[i].content)

\* C9: the bundle holds exactly one entry at app/src/main/AndroidManifest.xml.
C9_OneMainManifest ==
    Exported =>
        Cardinality({i \in 1..Len(bundle.entries) :
                        bundle.entries[i].path = MainManifestPath}) = 1

\* What a reader of the archive finds at a path: the entry written last.
EntryAt(path) ==
    LET idx == {i \in 1..Len(bundle.entries) : bundle.entries[i].path = path}
    IN  bundle.entries[CHOOSE i \in idx : \A j \in idx : j <= i]

\* C10: the main manifest of the bundle is the original when the root
\* AndroidManifest.xml of the tree is well-formed, non-empty markup beginning
\* with a declaration, and the synthesized default in every other case.
C10_ManifestChoice ==
    Exported =>
        IF /\ ManifestName \in DOMAIN projTree
           /\ projTree[ManifestName].readable
           /\ projTree[ManifestName].content = "decl"
        THEN /\ EntryAt(MainManifestPath).origin = "tree"
             /\ EntryAt(MainManifestPath).from = ManifestName
        ELSE EntryAt(MainManifestPath).origin = "scaffold"


\* mapPath as the claims state it.
MapPath(path) ==
    IF StartsWith(path, <<"res", "/">>) THEN AppMain \o path
    ELSE AppMain \o <<"assets", "/">> \o path

\* The archive b holds the file f of the tree, taken from path, at target.
HoldsFile(b, target, path, f) ==
    \E i \in 1..Len(b.entries) :
        /\ b.entries[i].path = target
        /\ b.entries[i].origin = "tree"
        /\ b.entries[i].from = path
        /\ b.entries[i].content = f.content

\* C17 as stated: in a successful export, every file of the tree that
\* shouldSkip did not skip is in the bundle with its bytes at mapPath of its
\* relative path: under app/src/main for a path under res/, under
\* app/src/main/assets for every other path.
C17_EveryKeptFileMapped ==
    [][(exportRet'.value /\ cwdTree' = cwdTree /\ ExportWith(exportRet'.name, "none"))
          => \A path \in DOMAIN projTree :
                ~should_skip_file(path, cwdTree)
                    => HoldsFile(bundle', MapPath(path), path, projTree[path])]_vars

\* C17 as amended: the same for every file other than the root
\* AndroidManifest.xml whose copy into the bundle did not fail.
C17_KeptFileMapped ==
    [][(exportRet'.value /\ cwdTree' = cwdTree /\ ExportWith(exportRet'.name, "none"))
          => \A path \in DOMAIN projTree :
                (/\ ~should_skip_file(path, cwdTree)
                 /\ path # ManifestName
                 /\ projTree[path].readable)
                    => HoldsFile(bundle', MapPath(path), path, projTree[path])]_vars

C17_Witness ==
    /\ Exported
    /\ LayoutPath \in DOMAIN projTree
    /\ DataPath \in DOMAIN projTree
    /\ HoldsFile(bundle, AppMain \o LayoutPath, LayoutPath, projTree[LayoutPath])
    /\ HoldsFile(bundle, AppMain \o <<"assets", "/">> \o DataPath, DataPath,
                 projTree[DataPath])

\* C18: a successful export holds no entry copied from a file of the tree
\* that is larger than 50 MiB, and the size rule does not exclude a file of
\* exactly 50 MiB (seen on a readable file that no other rule applies to).
C18_LargeFileExcluded ==
    Exported =>
        \A path \in DOMAIN projTree :
            /\ projTree[path].size > LargeFileLimit => ~CopiedFrom(path)
            /\ (/\ projTree[path].size = LargeFileLimit
                /\ path = DataPath
                /\ projTree[path].readable) => CopiedFrom(path)

\* The copy of the file at path fails in the walk: it is not skipped and it
\* cannot be read, or it is the root manifest and its text cannot be decoded.
CopyFails(path) ==
    /\ ~should_skip_file(path, cwdTree)
    /\ \/ ~projTree[path].readable
       \/ path = ManifestName /\ ~Decodes(projTree[path].content)

\* The archive b holds every entry of the scaffold of project_name.
HoldsScaffold(b, project_name) ==
    LET scaffold == ScaffoldBeforeWalk(project_name) \o ScaffoldAfterWalk
    IN  \A i \in 1..Len(scaffold) :
            \E j \in 1..Len(b.entries) : b.entries[j] = scaffold[i]

\* Where the export puts a file of the tree: the root manifest at the main
\* manifest path, every other file at mapPath.
MappedPath(path) == IF path = ManifestName THEN MainManifestPath ELSE MapPath(path)

\* C19 as stated: when the copy of a file fails in the walk, the export still
\* returns true, that file has no entry, and the bundle holds every scaffold
\* entry and every other file that was not skipped at its mapped path.
\* (Markup that does not parse is the subject of C8 and is left aside.)
C19_FailureIsolatedAll ==
    [][(/\ cwdTree' = cwdTree
        /\ \E bad \in DOMAIN projTree : CopyFails(bad)
        /\ ExportWith(exportRet'.name, "none"))
            => (/\ exportRet'.value
                /\ bundle'.kind = "zip"
                /\ HoldsScaffold(bundle', exportRet'.name)
                /\ \A path \in DOMAIN projTree :
                      IF CopyFails(path)
                      THEN \A i \in 1..Len(bundle'.entries) :
                              bundle'.entries[i].from # path
                      ELSE (/\ ~should_skip_file(path, cwdTree)
                            /\ EndsWith(path, <<".xml">>)
                                  => Parses(projTree[path].content))
                              => HoldsFile(bundle', MappedPath(path), path,
                                           projTree[path]))]_vars

\* C19 as amended: the same, where the root AndroidManifest.xml counts among
\* the other files only when it is non-empty text with a declaration (without
\* one it is not carried over, failure or not).
C19_FailureIsolated ==
    [][(/\ cwdTree' = cwdTree
        /\ \E bad \in DOMAIN projTree : CopyFails(bad)
        /\ ExportWith(exportRet'.name, "none"))
            => (/\ exportRet'.value
                /\ bundle'.kind = "zip"
                /\ HoldsScaffold(bundle', exportRet'.name)
                /\ \A path \in DOMAIN projTree :
                      IF CopyFails(path)
                      THEN \A i \in 1..Len(bundle'.entries) :
                              bundle'.entries[i].from # path
                      ELSE (/\ ~should_skip_file(path, cwdTree)
                            /\ path = ManifestName
                                  => HasXmlMarker(projTree[path].content))
                              => HoldsFile(bundle', MappedPath(path), path,
                                           projTree[path]))]_vars

C19_Witness ==
    /\ Exported
    /\ DataPath \in DOMAIN projTree
    /\ ~projTree[DataPath].readable
    /\ ~CopiedFrom(DataPath)
    /\ LayoutPath \in DOMAIN projTree
    /\ HoldsFile(bundle, AppMain \o LayoutPath, LayoutPath, projTree[LayoutPath])
    /\ HoldsScaffold(bundle, exportRet.name)

(***************************************************************************)
(* Properties of the toolchain capability, checked under SpecEnv.          *)
(***************************************************************************)

\* C12: the capability computed at construction is never changed by a later
\* operation, and every decompile and compile that selects a mode selects it
\* from that snapshot, whatever the environment has become.
C12_CapabilityFixed ==
    [][/\ apktool_path' = apktool_path
       /\ java_path' = java_path
       /\ ((Decompile \/ Compile) /\ ret'.mode # "none")
             => ret'.mode = IF apktool_path # None /\ java_path # None
                            THEN "native" ELSE "fallback"]_vars

C12_Witness ==
    /\ ret.op = "decompile"
    /\ ret.mode = "native"
    /\ find_apktool(env) = None
    /\ apktool_path # None

\* C21: readiness reports simulationMode true exactly when decompile and
\* compile take the fallback path, and false exactly when they take the
\* native path: an operation that follows a readiness call and selects a
\* mode selects the one the readiness record announced.
C21_SimulationModeIsFallback ==
    [][(/\ ret.op = "ready"
        /\ ret'.mode \in {"native", "fallback"}
        /\ (Decompile \/ Compile))
          => (ret.info.simulation_mode <=> ret'.mode = "fallback")]_vars

(***************************************************************************)
(* Further properties of the export, checked under SpecExport.             *)
(***************************************************************************)

\* The slug of a project name as the claims state it: lowercase, spaces and
\* hyphens replaced by underscores.
Slug(project_name) == Replace(Replace(Lower(project_name), " ", "_"), "-", "_")

\* The identifiers carried by the generated entries of the bundle at path.
IdsAt(path) ==
    UNION {Range(bundle.entries[i].ids) :
              i \in {j \in 1..Len(bundle.entries) :
                        /\ bundle.entries[j].origin = "scaffold"
                        /\ bundle.entries[j].path = path}}

\* C22: the identifiers derived from the project name are one slug: the
\* namespace and applicationId of app/build.gradle, the package of the
\* synthesized manifest, and the package and the directory of the generated
\* MainActivity.java.
C22_OneSlug ==
    Exported =>
        LET slug == Slug(exportRet.name)
            activity == AppMain \o <<"java", "/">> \o slug
                            \o <<"/", "MainActivity", ".java">>
        IN  /\ IdsAt(BuildGradlePath) = {slug}
            /\ IdsAt(MainManifestPath) = {slug}
            /\ IdsAt(activity) = {slug}

\* C23: no two entries of the bundle share an archive path; a file copied
\* from the tree (res/layout/activity_main.xml, for one) never coexists with a
\* generated entry at the same path.  The main manifest path, whose two
\* writers are the subject of C9, is left aside here.
C23_NoSharedPath ==
    Exported =>
        \A i, j \in 1..Len(bundle.entries) :
            /\ bundle.entries[i].path = bundle.entries[j].path
            /\ bundle.entries[i].path # MainManifestPath
            => i = j

(***************************************************************************)
(* src/app.py: the routes over the Project table.  One editor serves every *)
(* request; uploads/, projects/ and temp/ exist from create_app on.        *)
(***************************************************************************)
MaxProjects == 2
ProjectIds == 1..MaxProjects

UploadsDir == <<"uploads">>

\* The file names a browser may send and the project names of the form.
UploadNames == {<<"my", " ", "app", ".apk">>, <<"my", "_", "app", ".apk">>,
                <<"demo", ".apk">>, <<"notes", ".txt">>, <<>>}
FormNames == {<<>>, <<" ">>, <<"demo">>}
UploadContents == {Zip(WithPayloads(<<ManifestName>>)),
                   Zip(WithPayloads(<<ManifestName, DexName>>))}

\* str.strip on the tokens of a name.
RECURSIVE Strip(_)
Strip(s) ==
    IF s = <<>> THEN s
    ELSE IF Head(s) = " " THEN Strip(Tail(s))
    ELSE IF s[Len(s)] = " " THEN Strip(SubSeq(s, 1, Len(s) - 1))
    ELSE s

\* os.path.splitext(name)[0]: the name without its last extension.
Extensions == {".apk", ".txt"}
Stem(filename) ==
    IF Len(filename) > 1 /\ filename[Len(filename)] \in Extensions
    THEN SubSeq(filename, 1, Len(filename) - 1)
    ELSE filename

\* werkzeug's secure_filename on the names above: whitespace becomes "_".
secure_filename(filename) == Replace(filename, " ", "_")

\* The primary key the table gives a new row: one more than the largest.
NextId ==
    IF DOMAIN records = {} THEN 1
    ELSE (CHOOSE i \in DOMAIN records : \A j \in DOMAIN records : j <= i) + 1

Request(op, id, ok, removed) == [op |-> op, id |-> id, ok |-> ok, removed |-> removed]

StoredAt(path) == IF path \in DOMAIN stored THEN stored[path] ELSE Absent
ProjectDirKind(id) == IF id \in DOMAIN projectDirs THEN "dir" ELSE "absent"
ProjectDirTree(id) == IF id \in DOMAIN projectDirs THEN projectDirs[id] ELSE EmptyTree

\* The application starts on a host without the decompiler, so its editor
\* works on archives; no project exists yet.
InitProjects == InitEditorIdle /\ InitExportIdle /\ InitProjectsIdle

\* POST /upload
Upload ==
    /\ \E filename \in UploadNames, form \in FormNames, content \in UploadContents :
        LET project_name == IF Strip(form) = <<>> THEN Stem(filename) ELSE Strip(form)
            name == secure_filename(filename)
            upload_path == UploadsDir \o <<"/">> \o name
            id == NextId
        IN  IF filename = <<>> \/ ~EndsWith(Lower(filename), <<".apk">>)
            THEN /\ request' = Request("upload", 0, FALSE, <<>>)
                 /\ UNCHANGED <<records, stored, projectDirs>>
            ELSE /\ id \in ProjectIds
                 /\ stored' = Put(stored, upload_path, content)
                 /\ records' = Put(records, id,
                                   [name |-> project_name, original_filename |-> name,
                                    status |-> "uploaded", path |-> upload_path])
                 /\ request' = Request("upload", id, TRUE, <<>>)
                 /\ UNCHANGED projectDirs
    /\ UNCHANGED <<editorVars, exportVars>>

\* GET /decompile/<id>
DecompileProjectWith(id, outcome, toolTree) ==
    LET project == records[id]
        r == decompile_apk(StoredAt(project.path), ProjectDirKind(id),
                           ProjectDirTree(id), apktool_path, java_path,
                           outcome, toolTree)
    IN  /\ projectDirs' = IF r.dirKind = "dir" THEN Put(projectDirs, id, r.tree)
                          ELSE projectDirs
        /\ records' = IF r.value /\ ~r.raised
                      THEN [records EXCEPT ![id].status = "decompiled"]
                      ELSE records
        /\ request' = Request("decompile", id, r.value /\ ~r.raised, <<>>)
        /\ UNCHANGED stored
        /\ UNCHANGED <<editorVars, exportVars>>

DecompileProject ==
    \E id \in DOMAIN records :
        IF Native(apktool_path, java_path) /\ StoredAt(records[id].path).kind # "absent"
        THEN \E outcome \in ToolOutcomes(apktool_path, env), toolTree \in ToolTrees :
                DecompileProjectWith(id, outcome, toolTree)
        ELSE DecompileProjectWith(id, "ok", EmptyTree)

\* GET /compile/<id>
CompileProjectWith(id, build, keytool, signer, fault, ioFault) ==
    LET project == records[id]
        output == TempDir \o <<"/">> \o project.name \o <<"_modified", ".apk">>
        r == compile_apk(ProjectDirKind(id), ProjectDirTree(id), "dir",
                         StoredAt(output), keystore, output, apktool_path,
                         java_path, build, keytool, signer, fault, ioFault)
    IN  /\ stored' = IF r.outFile.kind = "absent" THEN stored
                     ELSE Put(stored, output, r.outFile)
        /\ projectDirs' = IF id \in DOMAIN projectDirs
                          THEN Put(projectDirs, id, r.tree) ELSE projectDirs
        /\ keystore' = r.keystore
        /\ records' = IF r.value /\ ~r.raised
                      THEN [records EXCEPT ![id].status = "compiled",
                                           ![id].path = output]
                      ELSE records
        /\ request' = Request("compile", id, r.value /\ ~r.raised, <<>>)
        /\ UNCHANGED <<apktool_path, java_path, env, pkg, dirKind, tree, tempKind,
                       output_path, outFile, ret, roundTrip>>
        /\ UNCHANGED exportVars

CompileProject ==
    \E id \in DOMAIN records :
        IF Native(apktool_path, java_path)
        THEN \E build \in ToolOutcomes(apktool_path, env) :
                IF run_command(build)
                THEN \E keytool \in CmdOutcomes, signer \in CmdOutcomes,
                        fault \in BOOLEAN :
                        CompileProjectWith(id, build, keytool, signer, fault, "none")
                ELSE CompileProjectWith(id, build, "ok", "ok", FALSE, "none")
        ELSE \E ioFault \in IoFaults :
                CompileProjectWith(id, "ok", "ok", "ok", FALSE, ioFault)

\* GET /delete_project/<id>
DeleteProject ==
    /\ \E id \in DOMAIN records :
        LET project == records[id]
        IN  /\ projectDirs' = Remove(projectDirs, id)
            /\ stored' = Remove(stored, project.path)
            /\ records' = Remove(records, id)
            /\ request' = Request("delete", id, TRUE,
                                  IF project.path \in DOMAIN stored
                                  THEN project.path ELSE <<>>)
    /\ UNCHANGED <<editorVars, exportVars>>

NextProjects == Upload \/ DecompileProject \/ CompileProject \/ DeleteProject

SpecProjects == InitProjects /\ [][NextProjects]_vars

(***************************************************************************)
(* Properties of the project records, checked under SpecProjects.          *)
(***************************************************************************)

\* C24: no two existing project records point to the same package file
\* path, and a delete removes no file that the record of another project
\* still points to.
C24_NoSharedPackagePath ==
    /\ \A i, j \in DOMAIN records : records[i].path = records[j].path => i = j
    /\ request.op = "delete"
          => \A i \in DOMAIN records : records[i].path # request.removed

====
